---- MODULE Spec2Model ----
(***************************************************************************)
(* Summed-area table (src/src/lib.rs).                                     *)
(*                                                                         *)
(* A source grid (VecSource: a flat row-major buffer with a width) is      *)
(* turned into a table of cumulative sums by calculate_summed_area_table,  *)
(* and the table answers rectangle queries (get_sum, get_data_count, ...). *)
(*                                                                         *)
(* Points are <<x, y>> = <<column, row>> as in the public API; table cells *)
(* are addressed <<row, col>> as in the code's table[(row, col)].          *)
(* The accumulator is f64; every value of the model is a small integer,    *)
(* which f64 represents exactly, so Int arithmetic is f64 arithmetic here. *)
(*                                                                         *)
(* debug is the build profile: TRUE when debug_assert! and the integer     *)
(* overflow checks are compiled in (cargo's dev/test profile), FALSE when  *)
(* they are compiled out (release profile).                                *)
(***************************************************************************)
EXTENDS Integers, Sequences, FiniteSets

VARIABLES debug, source, built, rect, table, call

vars == <<debug, source, built, rect, table, call>>

(* ------------------------------ bounds --------------------------------- *)

\* the largest width and height of a source grid
MaxW == 2
MaxH == 2
\* the largest sum of the absolute values of a source grid's cells
MaxTotal == 2
\* the same for the grids queried at and past the table's edge
EdgeTotal == 1

(* ------------------------------ source --------------------------------- *)

map_2d_to_1d(x, y, width) == y * width + x

\* VecSource::new
VecSource(vec, width, height) == [vec |-> vec, width |-> width, height |-> height]

\* the slice index of VecSource::at is bounds-checked
AtOk(src, x, y) == map_2d_to_1d(x, y, src.width) < Len(src.vec)

\* VecSource::at (the slice is 0-based, the sequence 1-based)
at(src, x, y) == src.vec[map_2d_to_1d(x, y, src.width) + 1]

(* ------------------------------ table ---------------------------------- *)

\* DMat::new_zeros(nrows, ncols)
new_zeros(nrows, ncols) ==
    [nrows |-> nrows, ncols |-> ncols,
     m |-> [p \in (0 .. nrows - 1) \X (0 .. ncols - 1) |-> 0]]

\* mutant: the two dimensions passed in the wrong order
new_table_swapped(src) == new_zeros(src.width, src.height)

\* line 43: the table is allocated with the source's dimensions
new_table(src) == new_zeros(src.height, src.width)

\* table[(i, j)] panics unless the index lies within the matrix
IndexOk(t, i, j) == i >= 0 /\ j >= 0 /\ i < t.nrows /\ j < t.ncols

Cell(t, i, j) == t.m[<<i, j>>]

SetCell(t, i, j, v) == [t EXCEPT !.m[<<i, j>>] = v]

\* mutant: the left neighbour is not added
CellSumNoLeft(src, t, row, col) ==
    at(src, col, row)
    + (IF row > 0 THEN Cell(t, row - 1, col) ELSE 0)
    - (IF row > 0 /\ col > 0 THEN Cell(t, row - 1, col - 1) ELSE 0)

\* mutant: the doubly counted corner is added instead of subtracted
CellSumAddCorner(src, t, row, col) ==
    at(src, col, row)
    + (IF row > 0 THEN Cell(t, row - 1, col) ELSE 0)
    + (IF col > 0 THEN Cell(t, row, col - 1) ELSE 0)
    + (IF row > 0 /\ col > 0 THEN Cell(t, row - 1, col - 1) ELSE 0)

\* lines 51-61: the value of one cell from the source and its neighbours
CellSum(src, t, row, col) ==
    at(src, col, row)
    + (IF row > 0 THEN Cell(t, row - 1, col) ELSE 0)
    + (IF col > 0 THEN Cell(t, row, col - 1) ELSE 0)
    - (IF row > 0 /\ col > 0 THEN Cell(t, row - 1, col - 1) ELSE 0)

\* lines 49-63: the inner loop, for col in from_x .. to_x+1; a panic ends it
RECURSIVE ForCol(_, _, _, _, _)
ForCol(src, acc, row, col, to_x) ==
    IF acc.fault \/ col > to_x THEN acc
    ELSE IF ~AtOk(src, col, row) \/ ~IndexOk(acc.table, row, col)
         THEN [fault |-> TRUE, table |-> acc.table]
         ELSE ForCol(src,
                     [fault |-> FALSE,
                      table |-> SetCell(acc.table, row, col,
                                        CellSum(src, acc.table, row, col))],
                     row, col + 1, to_x)

\* lines 48-64: the outer loop, for row in from_y .. to_y+1
RECURSIVE ForRow(_, _, _, _, _, _)
ForRow(src, acc, row, from_x, to_x, to_y) ==
    IF acc.fault \/ row > to_y THEN acc
    ELSE ForRow(src, ForCol(src, acc, row, from_x, to_x),
                row + 1, from_x, to_x, to_y)

\* mutant: the rectangle is ignored and the whole source is accumulated
calculate_whole_table(src, from, to) ==
    ForRow(src, [fault |-> FALSE, table |-> new_table(src)],
           0, 0, src.width - 1, src.height - 1)

\* lines 42-67
calculate_summed_area_table(src, from, to) ==
    ForRow(src, [fault |-> FALSE, table |-> new_table(src)],
           from[2], from[1], to[1], to[2])

\* lines 70-74
calculate_full_summed_area_table(src) ==
    calculate_summed_area_table(src, <<0, 0>>, <<src.width - 1, src.height - 1>>)

(* ------------------------------ queries -------------------------------- *)

Panic(why) == [fault |-> TRUE, why |-> why, value |-> 0]

Return(v) == [fault |-> FALSE, why |-> "", value |-> v]

\* mutant: the assertions are compiled out of every build
debug_assert_off(dbg, cond) == TRUE

\* debug_assert!(cond): passes when cond holds or the check is compiled out
debug_assert(dbg, cond) == ~dbg \/ cond

\* mutant: only the rows are compared
OrderOkRows(col1, row1, col2, row2) == row1 <= row2

\* line 94
OrderOk(col1, row1, col2, row2) == row1 <= row2 /\ col1 <= col2

\* lines 96-100
WithinBounds(t, col1, row1, col2, row2) ==
    col1 < t.ncols /\ col2 < t.ncols /\ row1 < t.nrows /\ row2 < t.nrows

\* mutant: the corner is subtracted
SubCorner(sum, corner) == sum - corner

\* line 106
AddCorner(sum, corner) == sum + corner

\* lines 116-124
GetSumTop(t, col1, row1, col2, row2, dbg, sum) ==
    IF row1 > 0
    THEN IF ~IndexOk(t, row1 - 1, col2) THEN Panic("index")
         ELSE LET temp == Cell(t, row1 - 1, col2) IN
              IF ~debug_assert(dbg, temp <= sum) THEN Panic("Overlow-Alarm 2")
              ELSE Return(sum - temp)
    ELSE Return(sum)

\* lines 108-115
GetSumLeft(t, col1, row1, col2, row2, dbg, sum) ==
    IF col1 > 0
    THEN IF ~IndexOk(t, row2, col1 - 1) THEN Panic("index")
         ELSE LET temp == Cell(t, row2, col1 - 1) IN
              IF ~debug_assert(dbg, temp <= sum) THEN Panic("Overlow-Alarm 1")
              ELSE GetSumTop(t, col1, row1, col2, row2, dbg, sum - temp)
    ELSE GetSumTop(t, col1, row1, col2, row2, dbg, sum)

\* lines 103-107
GetSumCorner(t, col1, row1, col2, row2, dbg) ==
    IF ~IndexOk(t, row2, col2) THEN Panic("index")
    ELSE LET sum == Cell(t, row2, col2) IN
         IF col1 > 0 /\ row1 > 0
         THEN IF ~IndexOk(t, row1 - 1, col1 - 1) THEN Panic("index")
              ELSE GetSumLeft(t, col1, row1, col2, row2, dbg,
                              AddCorner(sum, Cell(t, row1 - 1, col1 - 1)))
         ELSE GetSumLeft(t, col1, row1, col2, row2, dbg, sum)

\* lines 90-125
get_sum(t, from, to, dbg) ==
    LET col1 == from[1]
        row1 == from[2]
        col2 == to[1]
        row2 == to[2]
    IN  IF ~debug_assert(dbg, OrderOk(col1, row1, col2, row2)) THEN Panic("order")
        ELSE IF ~debug_assert(dbg, WithinBounds(t, col1, row1, col2, row2))
             THEN Panic("bounds")
             ELSE GetSumCorner(t, col1, row1, col2, row2, dbg)

\* A usize result. A subtraction below zero panics when the overflow checks
\* are compiled in and wraps modulo 2^64 otherwise; a wrapped result is kept
\* as its (negative) representative v, standing for 2^64 + v, and marked.
Usize(v, dbg) ==
    IF v >= 0 THEN Return(v)
    ELSE IF dbg THEN Panic("arithmetic overflow")
         ELSE [fault |-> FALSE, why |-> "wrapped", value |-> v]

\* mutant: the count validates its points against the table like get_sum
get_data_count_checked(t, from, to, dbg) ==
    IF ~WithinBounds(t, from[1], from[2], to[1], to[2]) THEN Panic("bounds")
    ELSE Return((to[1] - from[1] + 1) * (to[2] - from[2] + 1))

\* lines 141-145
get_data_count(t, from, to, dbg) ==
    LET from_x == from[1]
        from_y == from[2]
        to_x == to[1]
        to_y == to[2]
    IN  IF dbg /\ (to_x < from_x \/ to_y < from_y)
        THEN Panic("arithmetic overflow")
        ELSE Usize((to_x - from_x + 1) * (to_y - from_y + 1), dbg)

\* lines 163-165
get_overall_sum(t, dbg) == get_sum(t, <<0, 0>>, <<t.ncols - 1, t.nrows - 1>>, dbg)

\* lines 168-170
get_overall_data_count(t) == Return(t.ncols * t.nrows)

(* --------------------------- state machine ----------------------------- *)

NoCall == [op |-> "none", from |-> <<0, 0>>, to |-> <<0, 0>>,
           fault |-> FALSE, why |-> "", value |-> 0]

CallOf(op, from, to, out) ==
    [op |-> op, from |-> from, to |-> to,
     fault |-> out.fault, why |-> out.why, value |-> out.value]

NoTable == new_zeros(0, 0)

Abs(v) == IF v < 0 THEN 0 - v ELSE v

\* the buffers of n values whose absolute values sum to at most total
RECURSIVE Vecs(_, _)
Vecs(n, total) ==
    IF n = 0 THEN {<<>>}
    ELSE UNION { { Append(vec, v) : vec \in Vecs(n - 1, total - Abs(v)) } :
                 v \in (0 - total) .. total }

Sources(maxw, maxh, total) ==
    UNION { { VecSource(vec, w, h) : vec \in Vecs(w * h, total) } :
            w \in 1 .. maxw, h \in 1 .. maxh }

InitWith(srcs) ==
    /\ debug \in BOOLEAN
    /\ source \in srcs
    /\ built = "none"
    /\ rect = <<<<0, 0>>, <<0, 0>>>>
    /\ table = NoTable
    /\ call = NoCall

Init == InitWith(Sources(MaxW, MaxH, MaxTotal))

InitEdge == InitWith(Sources(MaxW, MaxH, EdgeTotal))

\* the points a caller passes: every cell, and one step past the last
\* column and the last row
Points == (0 .. source.width) \X (0 .. source.height)

\* the points of the grid
GridPoints == (0 .. source.width - 1) \X (0 .. source.height - 1)

Construct(from, to, r) ==
    /\ built = "none"
    /\ rect' = <<from, to>>
    /\ built' = IF r.fault THEN "panic" ELSE "ok"
    /\ table' = IF r.fault THEN NoTable ELSE r.table
    /\ UNCHANGED <<debug, source, call>>

CalculateFull ==
    Construct(<<0, 0>>, <<source.width - 1, source.height - 1>>,
              calculate_full_summed_area_table(source))

Calculate ==
    \E from \in GridPoints, to \in Points :
        Construct(from, to, calculate_summed_area_table(source, from, to))

\* The table is immutable and the queries are pure, so one run of the
\* model follows one query from the built table; a panic ends the program.
Query(op, from, to, out) ==
    /\ built = "ok"
    /\ call.op = "none"
    /\ call' = CallOf(op, from, to, out)
    /\ UNCHANGED <<debug, source, built, rect, table>>

GetSum ==
    \E from \in Points, to \in Points :
        Query("get_sum", from, to, get_sum(table, from, to, debug))

GetSumInGrid ==
    \E from \in GridPoints, to \in GridPoints :
        Query("get_sum", from, to, get_sum(table, from, to, debug))

GetDataCount ==
    \E from \in Points, to \in Points :
        Query("get_data_count", from, to, get_data_count(table, from, to, debug))

GetOverallSum ==
    Query("get_overall_sum", <<0, 0>>, <<table.ncols - 1, table.nrows - 1>>,
          get_overall_sum(table, debug))

GetOverallDataCount ==
    Query("get_overall_data_count", <<0, 0>>, <<table.ncols - 1, table.nrows - 1>>,
          get_overall_data_count(table))

\* the full build, queried inside the grid
Next ==
    \/ CalculateFull
    \/ GetSumInGrid
    \/ GetOverallSum
    \/ GetOverallDataCount

Spec == Init /\ [][Next]_vars

\* the build over any rectangle
NextBuild == Calculate

SpecBuild == Init /\ [][NextBuild]_vars

\* the full build, queried at and past the table's edge
NextEdge ==
    \/ CalculateFull
    \/ GetSum
    \/ GetDataCount

SpecEdge == InitEdge /\ [][NextEdge]_vars

(* ---------------------------- properties ------------------------------- *)

\* the sum of the source over a set of points, cell by cell
RECURSIVE SumOver(_, _)
SumOver(src, S) ==
    IF S = {} THEN 0
    ELSE LET p == CHOOSE q \in S : TRUE
         IN  at(src, p[1], p[2]) + SumOver(src, S \ {p})

RectPoints(from, to) == (from[1] .. to[1]) \X (from[2] .. to[2])

DirectSum(src, from, to) == SumOver(src, RectPoints(from, to))

NonNeg == \A i \in 1 .. Len(source.vec) : source.vec[i] >= 0

Ordered(from, to) == from[1] <= to[1] /\ from[2] <= to[2]

Reversed(from, to) == from[1] > to[1] \/ from[2] > to[2]

InGrid(p) == p[1] < source.width /\ p[2] < source.height

ValidRect(from, to) == Ordered(from, to) /\ InGrid(to)

OutOfTable(from, to) ==
    \/ from[1] >= table.ncols
    \/ to[1] >= table.ncols
    \/ from[2] >= table.nrows
    \/ to[2] >= table.nrows

ProperRect(from, to) == RectPoints(from, to) # GridPoints

Alarms == {"Overlow-Alarm 1", "Overlow-Alarm 2"}

\* C1: on the table of the full build of a non-negative source, get_sum over
\* a valid rectangle returns, without fault, the sum of the source's cells in
\* the rectangle.
C1_GetSumIsDirectSum ==
    (built = "ok" /\ NonNeg /\ call.op = "get_sum" /\ ValidRect(call.from, call.to))
        => (~call.fault /\ call.value = DirectSum(source, call.from, call.to))

C1_Witness ==
    /\ built = "ok" /\ NonNeg /\ call.op = "get_sum"
    /\ ValidRect(call.from, call.to)
    /\ call.from[1] > 0 /\ call.from[2] > 0
    /\ ~call.fault /\ call.value > 0
    /\ Cell(table, call.from[2] - 1, call.from[1] - 1) > 0

\* C2: after calculate_summed_area_table(from, to) over a valid rectangle,
\* every cell (r, c) of the rectangle holds the sum of the source over the
\* columns from.x..c and the rows from.y..r.
C2_CellsHoldRectSums ==
    (built = "ok" /\ ValidRect(rect[1], rect[2]))
        => \A p \in RectPoints(rect[1], rect[2]) :
               Cell(table, p[2], p[1]) = DirectSum(source, rect[1], p)

C2_Witness ==
    /\ built = "ok" /\ ValidRect(rect[1], rect[2])
    /\ rect[1][2] > 0 /\ rect[2][1] > rect[1][1]
    /\ Cell(table, rect[2][2], rect[2][1]) # 0
    /\ Cell(table, rect[2][2], rect[1][1]) # 0
    /\ Cell(table, rect[2][2], rect[2][1]) # Cell(table, rect[2][2], rect[1][1])

\* C3 as claimed: get_sum with from right of or below to ends in a fault.
C3_ReversedAlwaysFaults ==
    (built = "ok" /\ call.op = "get_sum" /\ Reversed(call.from, call.to))
        => call.fault

\* C3 as amended: in a build with debug assertions, get_sum with from right
\* of or below to (either axis alone) ends in a fault.
C3_ReversedFaultsInDebug ==
    (debug /\ built = "ok" /\ call.op = "get_sum" /\ Reversed(call.from, call.to))
        => call.fault

C3_Witness ==
    /\ debug /\ built = "ok" /\ call.op = "get_sum"
    /\ call.from[1] > call.to[1] /\ call.from[2] <= call.to[2]
    /\ InGrid(call.from) /\ InGrid(call.to)
    /\ call.fault /\ call.why = "order"

\* C4 as claimed: get_sum with a coordinate at or past the table's width or
\* height ends in a fault.
C4_OutOfBoundsAlwaysFaults ==
    (built = "ok" /\ call.op = "get_sum" /\ OutOfTable(call.from, call.to))
        => call.fault

\* C4 as amended: in a build with debug assertions, get_sum with a coordinate
\* at or past the table's width or height ends in a fault.
C4_OutOfBoundsFaultsInDebug ==
    (debug /\ built = "ok" /\ call.op = "get_sum" /\ OutOfTable(call.from, call.to))
        => call.fault

C4_Witness ==
    /\ debug /\ built = "ok" /\ call.op = "get_sum"
    /\ Ordered(call.from, call.to)
    /\ call.to[1] = table.ncols /\ call.to[2] < table.nrows
    /\ call.fault /\ call.why = "bounds"

\* C5 as claimed: construction with from right of or below to fails and
\* returns no table.
C5_ReversedBuildFails ==
    (built # "none" /\ Reversed(rect[1], rect[2])) => built = "panic"

\* C5 as amended: construction with from right of or below to does not
\* fail; it returns a table of the source's dimensions whose cells are all 0.
C5_ReversedBuildIsZeroTable ==
    (built # "none" /\ Reversed(rect[1], rect[2]))
        => (built = "ok" /\ table = new_zeros(source.height, source.width))

C5_Witness ==
    /\ built = "ok" /\ Reversed(rect[1], rect[2])
    /\ InGrid(rect[1]) /\ InGrid(rect[2])
    /\ \A i \in 1 .. Len(source.vec) : source.vec[i] # 0

\* C6 as claimed: the table has the dimensions of the rectangle it was
\* built over.
C6_TableHasRectDimensions ==
    (built = "ok" /\ ValidRect(rect[1], rect[2]))
        => /\ table.ncols = rect[2][1] - rect[1][1] + 1
           /\ table.nrows = rect[2][2] - rect[1][2] + 1

\* C6 as amended: the table has the dimensions of the source, whatever the
\* rectangle it was built over.
C6_TableHasSourceDimensions ==
    built = "ok" => (table.ncols = source.width /\ table.nrows = source.height)

C6_Witness ==
    /\ built = "ok" /\ ValidRect(rect[1], rect[2])
    /\ ProperRect(rect[1], rect[2])
    /\ source.width # source.height

\* C7: get_sum over a valid rectangle never raises an overflow alarm, also
\* when the source holds negative values.
C7_NoAlarmOnValidQuery ==
    (built = "ok" /\ call.op = "get_sum" /\ ValidRect(call.from, call.to))
        => call.why \notin Alarms

\* C8 as claimed: get_data_count with a coordinate outside the table fails.
C8_CountOutOfBoundsFaults ==
    (built = "ok" /\ call.op = "get_data_count" /\ OutOfTable(call.from, call.to))
        => call.fault

\* C8 as amended: get_data_count does not look at the table; for from not
\* right of or below to it returns the number of points of the rectangle
\* without fault, also when the points lie outside the table.
C8_CountIsRectSize ==
    (built = "ok" /\ call.op = "get_data_count" /\ Ordered(call.from, call.to))
        => (~call.fault /\ call.value = Cardinality(RectPoints(call.from, call.to)))

C8_Witness ==
    /\ built = "ok" /\ call.op = "get_data_count"
    /\ call.from = <<0, 0>> /\ call.to = <<table.ncols, table.nrows>>
    /\ ~call.fault /\ call.value > table.ncols * table.nrows

\* C9: the table of the full build of a non-negative source does not
\* decrease along a row or along a column, and so get_sum((0,0), to) does not
\* decrease as to.x or to.y grows.
C9_Monotonic ==
    (built = "ok" /\ NonNeg)
        => /\ \A p \in GridPoints : \A q \in GridPoints :
                  (p[1] <= q[1] /\ p[2] <= q[2])
                      => /\ Cell(table, p[2], p[1]) <= Cell(table, q[2], q[1])
                         /\ get_sum(table, <<0, 0>>, p, debug).value
                                <= get_sum(table, <<0, 0>>, q, debug).value
           /\ \A p \in GridPoints : ~get_sum(table, <<0, 0>>, p, debug).fault

C9_Witness ==
    /\ built = "ok" /\ NonNeg
    /\ source.width > 1 /\ source.height > 1
    /\ Cell(table, 0, 0) < Cell(table, 0, 1)
    /\ Cell(table, 0, 1) < Cell(table, 1, 1)
    /\ Cell(table, 1, 0) < Cell(table, 1, 1)

\* C10: in a table built over a proper sub-rectangle of a non-negative
\* source, every cell outside the sub-rectangle is 0, and get_sum over any
\* rectangle inside the sub-rectangle, given in the source's coordinates,
\* returns without fault the sum of the source over that rectangle.
C10_SubTableGlobalCoordinates ==
    (built = "ok" /\ NonNeg /\ ValidRect(rect[1], rect[2])
                  /\ ProperRect(rect[1], rect[2]))
        => /\ \A p \in GridPoints \ RectPoints(rect[1], rect[2]) :
                  Cell(table, p[2], p[1]) = 0
           /\ \A from \in RectPoints(rect[1], rect[2]) :
                  \A to \in RectPoints(from, rect[2]) :
                      get_sum(table, from, to, debug)
                          = Return(DirectSum(source, from, to))

C10_Witness ==
    /\ built = "ok" /\ NonNeg /\ ValidRect(rect[1], rect[2])
    /\ ProperRect(rect[1], rect[2])
    /\ rect[1][1] > 0 /\ rect[2][2] > rect[1][2]
    /\ get_sum(table, rect[1], rect[2], debug) = Return(2)
    /\ get_sum(table, rect[2], rect[2], debug) = Return(1)

====
